---- MODULE Spec2Model ----
(***************************************************************************)
(* A model of app.py: the local-network blog (Flask + SQLite + upload     *)
(* directory).  Text values are sequences of one-character strings, so    *)
(* that str.startswith, str.split, str.strip, int() and secure_filename   *)
(* are computed on characters as the Python code computes them.           *)
(* Requests are served by threads that interleave between statements that *)
(* touch shared state (the store, the upload directory, the clock, the    *)
(* INITIALIZED flag).                                                     *)
(***************************************************************************)
EXTENDS Integers, Sequences, FiniteSets, TLC

VARIABLES
    INITIALIZED,   \* app.config["INITIALIZED"]
    tables,        \* TRUE once the posts and comments tables exist in blog.db
    upload_dir,    \* TRUE once the UPLOAD_DIR directory exists
    files,         \* names of the files in UPLOAD_DIR
    posts,         \* rows of table posts
    comments,      \* rows of table comments
    post_seq,      \* sqlite_sequence value of posts (AUTOINCREMENT): last id given
    comment_seq,   \* sqlite_sequence value of comments
    clock,         \* the last reading of the system clock, in ticks
    thread,        \* per worker thread: the request, position, locals, response
    init_runs      \* history: how many times init_db has run

vars == <<INITIALIZED, tables, upload_dir, files, posts, comments, post_seq,
          comment_seq, clock, thread, init_runs>>

-----------------------------------------------------------------------------
(* Bounds of the model. *)

MaxClock == 2        \* the last reading the clock gives, two threads
SeqMaxClock == 1     \* the last reading the clock gives, one thread
ListMaxClock == 4    \* the last reading the clock gives, listing specification
TicksPerSecond == 2  \* clock ticks (timestamp() resolution) per second
SecondsPerDay == 2   \* seconds per calendar day
MaxPosts == 2        \* create-post requests accepted over a run
MaxComments == 1     \* add-comment requests accepted over a run
MaxInitRuns == 3     \* failing runs of the initialization over a run

Threads == {1, 2}

-----------------------------------------------------------------------------
(* Python str operations, on sequences of characters. *)

WHITESPACE == {" "}

startswith(s, prefix) ==
    Len(s) >= Len(prefix) /\ SubSeq(s, 1, Len(prefix)) = prefix

RECURSIVE lstrip(_, _)
lstrip(s, chars) ==
    IF s # <<>> /\ s[1] \in chars THEN lstrip(Tail(s), chars) ELSE s

RECURSIVE rstrip(_, _)
rstrip(s, chars) ==
    IF s # <<>> /\ s[Len(s)] \in chars
    THEN rstrip(SubSeq(s, 1, Len(s) - 1), chars) ELSE s

\* str.strip(chars)
strip_chars(s, chars) == rstrip(lstrip(s, chars), chars)

\* str.strip()
strip(s) == strip_chars(s, WHITESPACE)

\* str.split(sep): the pieces between the occurrences of sep
RECURSIVE split(_, _)
split(s, sep) ==
    IF \E i \in 1..Len(s) : s[i] = sep
    THEN LET i == CHOOSE k \in 1..Len(s) :
                      s[k] = sep /\ \A j \in 1..(k - 1) : s[j] # sep
         IN  <<SubSeq(s, 1, i - 1)>> \o split(SubSeq(s, i + 1, Len(s)), sep)
    ELSE <<s>>

\* str.rsplit(sep, 1): split once, at the last occurrence of sep
rsplit1(s, sep) ==
    IF \E i \in 1..Len(s) : s[i] = sep
    THEN LET i == CHOOSE k \in 1..Len(s) :
                      s[k] = sep /\ \A j \in (k + 1)..Len(s) : s[j] # sep
         IN  <<SubSeq(s, 1, i - 1), SubSeq(s, i + 1, Len(s))>>
    ELSE <<s>>

\* str.split(): the words between runs of whitespace
RECURSIVE split_words(_)
split_words(s) ==
    LET t == lstrip(s, WHITESPACE) IN
    IF t = <<>> THEN <<>>
    ELSE IF \E i \in 1..Len(t) : t[i] \in WHITESPACE
    THEN LET i == CHOOSE k \in 1..Len(t) :
                      t[k] \in WHITESPACE /\ \A j \in 1..(k - 1) : t[j] \notin WHITESPACE
         IN  <<SubSeq(t, 1, i - 1)>> \o split_words(SubSeq(t, i + 1, Len(t)))
    ELSE <<t>>

\* sep.join(words)
RECURSIVE join(_, _)
join(words, sep) ==
    IF words = <<>> THEN <<>>
    ELSE IF Len(words) = 1 THEN words[1]
    ELSE words[1] \o <<sep>> \o join(Tail(words), sep)

UPPERCASE == <<"A", "B", "C", "D", "E", "F", "G", "H", "I", "J", "K", "L", "M",
               "N", "O", "P", "Q", "R", "S", "T", "U", "V", "W", "X", "Y", "Z">>
LOWERCASE == <<"a", "b", "c", "d", "e", "f", "g", "h", "i", "j", "k", "l", "m",
               "n", "o", "p", "q", "r", "s", "t", "u", "v", "w", "x", "y", "z">>
DIGITS == <<"0", "1", "2", "3", "4", "5", "6", "7", "8", "9">>

Range(f) == {f[i] : i \in DOMAIN f}

\* str.lower()
lower(s) ==
    [i \in 1..Len(s) |->
        IF \E k \in 1..26 : UPPERCASE[k] = s[i]
        THEN LOWERCASE[CHOOSE k \in 1..26 : UPPERCASE[k] = s[i]]
        ELSE s[i]]

DigitValue(c) == (CHOOSE k \in 1..10 : DIGITS[k] = c) - 1

RECURSIVE DecimalValue(_)
DecimalValue(ds) ==
    IF ds = <<>> THEN 0
    ELSE 10 * DecimalValue(SubSeq(ds, 1, Len(ds) - 1)) + DigitValue(ds[Len(ds)])

\* int(text): surrounding whitespace and one sign are accepted; anything else
\* than decimal digits raises ValueError (ok = FALSE)
int(text) ==
    LET t      == strip(text)
        signed == t # <<>> /\ t[1] \in {"+", "-"}
        ds     == IF signed THEN Tail(t) ELSE t
        ok     == ds # <<>> /\ \A i \in 1..Len(ds) : ds[i] \in Range(DIGITS)
    IN  [ok |-> ok,
         value |-> IF ok
                   THEN (IF signed /\ t[1] = "-" THEN -1 ELSE 1) * DecimalValue(ds)
                   ELSE 0]

-----------------------------------------------------------------------------
(* The access filter. *)

is_private_ip(ip_address) ==
    IF startswith(ip_address, <<"1", "2", "7", ".">>) THEN TRUE
    ELSE IF startswith(ip_address, <<"1", "0", ".">>) THEN TRUE
    ELSE IF startswith(ip_address, <<"1", "9", "2", ".", "1", "6", "8", ".">>) THEN TRUE
    ELSE IF startswith(ip_address, <<"1", "7", "2", ".">>)
    THEN LET parts == split(ip_address, ".") IN
         IF Len(parts) < 2 THEN FALSE                  \* IndexError
         ELSE LET second_octet == int(parts[2]) IN
              IF ~second_octet.ok THEN FALSE           \* ValueError
              ELSE 16 <= second_octet.value /\ second_octet.value <= 31
    ELSE FALSE

-----------------------------------------------------------------------------
(* Upload names. *)

ALLOWED_EXTENSIONS ==
    { <<"p", "n", "g">>, <<"j", "p", "g">>, <<"j", "p", "e", "g">>,
      <<"g", "i", "f">>, <<"w", "e", "b", "p">> }

\* a faulty variant: the extension compared without lowering it
allowed_file_case(filename) ==
    /\ "." \in Range(filename)
    /\ rsplit1(filename, ".")[2] \in ALLOWED_EXTENSIONS

allowed_file(filename) ==
    /\ "." \in Range(filename)
    /\ lower(rsplit1(filename, ".")[2]) \in ALLOWED_EXTENSIONS

\* the characters werkzeug's secure_filename keeps: [A-Za-z0-9_.-]
SAFE_CHARS ==
    Range(UPPERCASE) \cup Range(LOWERCASE) \cup Range(DIGITS) \cup {"_", ".", "-"}

\* werkzeug.utils.secure_filename: path separators become blanks, the words
\* are joined with "_", every character outside SAFE_CHARS is dropped, and
\* leading and trailing dots and underscores are stripped
secure_filename(filename) ==
    LET flat   == [i \in 1..Len(filename) |->
                       IF filename[i] = "/" THEN " " ELSE filename[i]]
        joined == join(split_words(flat), "_")
        kept   == SelectSeq(joined, LAMBDA c : c \in SAFE_CHARS)
    IN  strip_chars(kept, {".", "_"})

-----------------------------------------------------------------------------
(* Values. *)

\* an optional text: a header, a form field or a file field that may be missing
None == [present |-> FALSE, value |-> <<>>]
Some(v) == [present |-> TRUE, value |-> v]

\* request.headers.get(name, default), request.form.get(name, default)
get(field, default) == IF field.present THEN field.value ELSE default

\* f"{timestamp}_{name}": the composed name of an upload; NullName is NULL/None
Composed(ts, name) == [ts |-> ts, name |-> name]
NullName == [ts |-> -1, name |-> <<>>]

ANONYMOUS == <<"A", "n", "o", "n", "y", "m", "o", "u", "s">>

\* datetime.utcnow().timestamp(): the clock at its full resolution
timestamp(instant) == instant

\* datetime.utcnow().isoformat(timespec="seconds"): "YYYY-MM-DDTHH:MM:SS",
\* modelled as <<calendar day, second of the day>>
isoformat(instant) ==
    << instant \div (TicksPerSecond * SecondsPerDay),
       (instant \div TicksPerSecond) % SecondsPerDay >>

\* SQLite date(created_at): the "YYYY-MM-DD" part, as text
sql_date(created_at) == <<created_at[1]>>

\* SQLite datetime(created_at): "YYYY-MM-DD HH:MM:SS", as text
sql_datetime(created_at) == <<created_at[1], created_at[2]>>

\* the order of SQLite text values (fixed-width fields compare field by field)
RECURSIVE text_less(_, _)
text_less(a, b) ==
    IF b = <<>> THEN FALSE
    ELSE IF a = <<>> THEN TRUE
    ELSE IF a[1] # b[1] THEN a[1] < b[1]
    ELSE text_less(Tail(a), Tail(b))

\* every arrangement of the rows of a finite set as a sequence
Arrangements(rows) ==
    { s \in [1..Cardinality(rows) -> rows] :
        \A i, j \in 1..Cardinality(rows) : i # j => s[i] # s[j] }

\* a faulty variant: the date filter is ignored
select_posts_unfiltered(selected_date) ==
    { s \in Arrangements(posts) :
        \A i, j \in 1..Len(s) :
            i < j => ~text_less(sql_datetime(s[i].created_at),
                                sql_datetime(s[j].created_at)) }

\* SELECT * FROM posts [WHERE date(created_at) = ?] ORDER BY datetime(created_at)
\* DESC: the results the query may return (rows with equal keys in any order)
select_posts(selected_date) ==
    LET rows == IF selected_date.present /\ selected_date.value # <<>>
                THEN {p \in posts : sql_date(p.created_at) = selected_date.value}
                ELSE posts
    IN  { s \in Arrangements(rows) :
            \A i, j \in 1..Len(s) :
                i < j => ~text_less(sql_datetime(s[i].created_at),
                                    sql_datetime(s[j].created_at)) }

\* SELECT DISTINCT date(created_at) ... ; the set comprehension keeps the
\* non-empty ones and sorted() orders them
select_post_dates == {sql_date(p.created_at) : p \in posts}

\* SELECT * FROM comments WHERE post_id IN (...) ORDER BY datetime(created_at) ASC
select_comments(post_ids) ==
    { s \in Arrangements({c \in comments : c.post_id \in post_ids}) :
        \A i, j \in 1..Len(s) :
            i < j => ~text_less(sql_datetime(s[j].created_at),
                                sql_datetime(s[i].created_at)) }

-----------------------------------------------------------------------------
(* Requests and threads. *)

\* a request: the route, the origin headers and the fields the route reads
NoRequest ==
    [op |-> "none", xff |-> None, peer |-> None, title |-> None, body |-> None,
     image |-> None, post_id |-> 0, author |-> None, date |-> None,
     filename |-> NullName]

\* a thread between requests
Idle ==
    [pc |-> "idle", req |-> NoRequest, resp |-> 0,
     title |-> <<>>, body |-> <<>>, author |-> <<>>,
     filename |-> NullName, created_at |-> <<>>,
     post |-> NullName, listing |-> <<>>, post_dates |-> {}, shown |-> <<>>,
     started |-> 0, deleted_before |-> {}, written |-> {}]

\* the first statement of each route's handler
Entry(op) ==
    CASE op = "index"   -> "index_posts"
      [] op = "create"  -> "create_validate"
      [] op = "comment" -> "comment_validate"
      [] op = "delete"  -> "delete_lookup"
      [] op = "serve"   -> "serve"

Shared == <<INITIALIZED, tables, upload_dir, files, posts, comments, post_seq,
            comment_seq, clock, init_runs>>

\* abort(code) and return redirect()/render: the request ends with a response
Respond(t, code) ==
    thread' = [thread EXCEPT ![t] =
                  [Idle EXCEPT !.pc = "done", !.req = thread[t].req, !.resp = code,
                               !.started = thread[t].started,
                               !.deleted_before = thread[t].deleted_before]]

\* render_template: the request ends with the page; of the rows handed to
\* the template the thread keeps the comments, the last ones read
Render(t, found) ==
    thread' = [thread EXCEPT ![t] =
                  [Idle EXCEPT !.pc = "done", !.req = thread[t].req, !.resp = 200,
                               !.shown = found,
                               !.deleted_before = thread[t].deleted_before]]

Goto(t, pc) == thread' = [thread EXCEPT ![t].pc = pc]

\* requests of the route that have been accepted and have not yet answered
InFlight(op) ==
    Cardinality({u \in Threads :
        thread[u].req.op = op /\ thread[u].pc \notin {"idle", "done"}})

Init ==
    /\ INITIALIZED = FALSE
    /\ tables = FALSE
    /\ upload_dir = FALSE
    /\ files = {}
    /\ posts = {}
    /\ comments = {}
    /\ post_seq = 0
    /\ comment_seq = 0
    /\ clock = 0
    /\ thread = [t \in Threads |-> Idle]
    /\ init_runs = 0

\* datetime.utcnow(): the readings the clock can give now.  The clock does
\* not go back, and two readings may be equal.
utcnow(last) == clock..last

\* the posts whose delete request has returned its redirect (as far as the
\* threads that answered still show)
Deleted ==
    {thread[u].req.post_id : u \in {v \in Threads :
        thread[v].req.op = "delete" /\ thread[v].pc = "done" /\ thread[v].resp = 302}}

\* a request arrives at an idle thread
Arrive(t, requests) ==
    /\ thread[t].pc = "idle"
    /\ \E r \in requests :
        /\ r.op = "create" => post_seq + InFlight("create") < MaxPosts
        /\ r.op = "comment" => comment_seq + InFlight("comment") < MaxComments
        /\ thread' = [thread EXCEPT ![t] =
                        [Idle EXCEPT !.pc = "limit", !.req = r,
                                     !.started =
                                         IF r.op = "create" THEN post_seq ELSE 0,
                                     !.deleted_before =
                                         IF r.op = "index" THEN Deleted ELSE {}]]
    /\ UNCHANGED Shared

\* the origin the request declares: the forwarded-for header when present,
\* else the peer address, else ""
declared_origin(req) == get(req.xff, get(req.peer, <<>>))

limit_to_local_network(t) ==
    /\ thread[t].pc = "limit"
    /\ LET remote_addr == declared_origin(thread[t].req) IN
       IF remote_addr # <<>> /\ ~is_private_ip(remote_addr)
       THEN Respond(t, 403)
       ELSE Goto(t, "setup")
    /\ UNCHANGED Shared

\* a faulty variant: the flag is not consulted
setup_unguarded(t) ==
    /\ thread[t].pc = "setup"
    /\ Goto(t, "init_db")
    /\ UNCHANGED Shared

\* a faulty variant: the handler is entered without initialization
setup_skipped(t) ==
    /\ thread[t].pc = "setup"
    /\ Goto(t, Entry(thread[t].req.op))
    /\ UNCHANGED Shared

\* setup, line 101: the guard on the flag
setup(t) ==
    /\ thread[t].pc = "setup"
    /\ IF INITIALIZED
       THEN Goto(t, Entry(thread[t].req.op))
       ELSE Goto(t, "init_db")
    /\ UNCHANGED Shared

\* CREATE TABLE IF NOT EXISTS posts, comments; commit
init_db(t) ==
    /\ thread[t].pc = "init_db"
    /\ tables' = TRUE
    /\ init_runs' = init_runs + 1
    /\ Goto(t, "mkdir")
    /\ UNCHANGED <<INITIALIZED, upload_dir, files, posts, comments, post_seq,
                   comment_seq, clock>>

\* init_db raising (sqlite3.connect or execute failing): the request ends
\* with a 500 before line 105, so the flag stays unset
init_db_raises(t) ==
    /\ thread[t].pc = "init_db"
    /\ init_runs < MaxInitRuns
    /\ init_runs' = init_runs + 1
    /\ Respond(t, 500)
    /\ UNCHANGED <<INITIALIZED, tables, upload_dir, files, posts, comments,
                   post_seq, comment_seq, clock>>

\* setup, lines 104-105: UPLOAD_DIR.mkdir(exist_ok=True), then the flag is set
setup_finish(t) ==
    /\ thread[t].pc = "mkdir"
    /\ upload_dir' = TRUE
    /\ INITIALIZED' = TRUE
    /\ Goto(t, Entry(thread[t].req.op))
    /\ UNCHANGED <<tables, files, posts, comments, post_seq, comment_seq, clock,
                   init_runs>>

-----------------------------------------------------------------------------
(* index: GET / *)

\* lines 114-132: the posts query and the distinct dates query (two reads,
\* taken here on the same state of the store)
index_posts(t) ==
    /\ thread[t].pc = "index_posts"
    /\ \E rows \in select_posts(thread[t].req.date) :
           thread' = [thread EXCEPT ![t].pc = "index_comments",
                                    ![t].listing = rows,
                                    ![t].post_dates = select_post_dates]
    /\ UNCHANGED Shared

\* lines 134-151: the comments of the listed posts, then the page
index_comments(t) ==
    /\ thread[t].pc = "index_comments"
    /\ LET post_ids == {thread[t].listing[i].id : i \in 1..Len(thread[t].listing)} IN
       IF post_ids # {}
       THEN \E found \in select_comments(post_ids) : Render(t, found)
       ELSE Render(t, <<>>)
    /\ UNCHANGED Shared

-----------------------------------------------------------------------------
(* create_post: POST /post *)

\* a faulty variant: the body is not required
create_post_validate_title_only(t, last) ==
    /\ thread[t].pc = "create_validate"
    /\ LET req   == thread[t].req
           title == strip(get(req.title, <<>>))
           body  == strip(get(req.body, <<>>))
       IN  IF title = <<>>
           THEN Respond(t, 400) /\ UNCHANGED clock
           ELSE IF req.image.present /\ req.image.value # <<>>
           THEN IF ~allowed_file(req.image.value)
                THEN Respond(t, 400) /\ UNCHANGED clock
                ELSE \E now \in utcnow(last) :
                       /\ clock' = now
                       /\ thread' = [thread EXCEPT
                            ![t].pc = "create_save",
                            ![t].title = title, ![t].body = body,
                            ![t].filename =
                                Composed(timestamp(now),
                                         secure_filename(req.image.value))]
           ELSE /\ thread' = [thread EXCEPT
                       ![t].pc = "create_stamp", ![t].title = title, ![t].body = body]
                /\ UNCHANGED clock
    /\ UNCHANGED <<INITIALIZED, tables, upload_dir, files, posts, comments,
                   post_seq, comment_seq, init_runs>>

\* a faulty variant: the title and body are stored as submitted
create_post_validate_untrimmed(t, last) ==
    /\ thread[t].pc = "create_validate"
    /\ LET req   == thread[t].req
           title == get(req.title, <<>>)
           body  == get(req.body, <<>>)
       IN  IF strip(title) = <<>> \/ strip(body) = <<>>
           THEN Respond(t, 400) /\ UNCHANGED clock
           ELSE IF req.image.present /\ req.image.value # <<>>
           THEN IF ~allowed_file(req.image.value)
                THEN Respond(t, 400) /\ UNCHANGED clock
                ELSE \E now \in utcnow(last) :
                       /\ clock' = now
                       /\ thread' = [thread EXCEPT
                            ![t].pc = "create_save",
                            ![t].title = title, ![t].body = body,
                            ![t].filename =
                                Composed(timestamp(now),
                                         secure_filename(req.image.value))]
           ELSE /\ thread' = [thread EXCEPT
                       ![t].pc = "create_stamp", ![t].title = title, ![t].body = body]
                /\ UNCHANGED clock
    /\ UNCHANGED <<INITIALIZED, tables, upload_dir, files, posts, comments,
                   post_seq, comment_seq, init_runs>>

\* lines 156-166: the fields are trimmed and required, the image's extension
\* is checked, and the upload's name is composed from the clock
create_post_validate(t, last) ==
    /\ thread[t].pc = "create_validate"
    /\ LET req   == thread[t].req
           title == strip(get(req.title, <<>>))
           body  == strip(get(req.body, <<>>))
       IN  IF title = <<>> \/ body = <<>>
           THEN Respond(t, 400) /\ UNCHANGED clock
           ELSE IF req.image.present /\ req.image.value # <<>>
           THEN IF ~allowed_file(req.image.value)
                THEN Respond(t, 400) /\ UNCHANGED clock
                ELSE \E now \in utcnow(last) :
                       /\ clock' = now
                       /\ thread' = [thread EXCEPT
                            ![t].pc = "create_save",
                            ![t].title = title, ![t].body = body,
                            ![t].filename =
                                Composed(timestamp(now),
                                         secure_filename(req.image.value))]
           ELSE /\ thread' = [thread EXCEPT
                       ![t].pc = "create_stamp", ![t].title = title, ![t].body = body]
                /\ UNCHANGED clock
    /\ UNCHANGED <<INITIALIZED, tables, upload_dir, files, posts, comments,
                   post_seq, comment_seq, init_runs>>

\* line 167: file.save(UPLOAD_DIR / filename); an existing file is overwritten
create_post_save(t) ==
    /\ thread[t].pc = "create_save"
    /\ files' = files \cup {thread[t].filename}
    /\ thread' = [thread EXCEPT ![t].pc = "create_stamp",
                                ![t].written = @ \cup {thread[t].filename}]
    /\ UNCHANGED <<INITIALIZED, tables, upload_dir, posts, comments, post_seq,
                   comment_seq, clock, init_runs>>

\* line 172: the arguments of the INSERT are evaluated, created_at from the clock
create_post_stamp(t, last) ==
    /\ thread[t].pc = "create_stamp"
    /\ \E now \in utcnow(last) :
        /\ clock' = now
        /\ thread' = [thread EXCEPT ![t].pc = "create_insert",
                                    ![t].created_at = isoformat(now)]
    /\ UNCHANGED <<INITIALIZED, tables, upload_dir, files, posts, comments,
                   post_seq, comment_seq, init_runs>>

\* a faulty variant: the id is one more than the largest id in the table (a
\* rowid without AUTOINCREMENT)
create_post_insert_rowid(t) ==
    /\ thread[t].pc = "create_insert"
    /\ post_seq' = post_seq + 1
    /\ posts' = posts \cup
          {[id |-> 1 + Cardinality({i \in 1..post_seq :
                                      \E p \in posts : p.id >= i}),
            title |-> thread[t].title,
            body |-> thread[t].body,
            image_filename |-> thread[t].filename,
            created_at |-> thread[t].created_at,
            original |-> get(thread[t].req.image, <<>>)]}
    /\ Respond(t, 302)
    /\ UNCHANGED <<INITIALIZED, tables, upload_dir, files, comments, comment_seq,
                   clock, init_runs>>

\* lines 170-175: INSERT INTO posts, commit, redirect.  The row also keeps,
\* as history, the original name of its upload.
create_post_insert(t) ==
    /\ thread[t].pc = "create_insert"
    /\ post_seq' = post_seq + 1
    /\ posts' = posts \cup
          {[id |-> post_seq + 1,
            title |-> thread[t].title,
            body |-> thread[t].body,
            image_filename |-> thread[t].filename,
            created_at |-> thread[t].created_at,
            original |-> get(thread[t].req.image, <<>>)]}
    /\ Respond(t, 302)
    /\ UNCHANGED <<INITIALIZED, tables, upload_dir, files, comments, comment_seq,
                   clock, init_runs>>

-----------------------------------------------------------------------------
(* add_comment: POST /comment/<post_id> *)

\* a faulty variant: a blank author is kept as it is
add_comment_validate_no_default(t) ==
    /\ thread[t].pc = "comment_validate"
    /\ LET req    == thread[t].req
           author == strip(get(req.author, ANONYMOUS))
           body   == strip(get(req.body, <<>>))
       IN  IF body = <<>>
           THEN Respond(t, 400)
           ELSE thread' = [thread EXCEPT ![t].pc = "comment_lookup",
                                         ![t].author = author, ![t].body = body]
    /\ UNCHANGED Shared

\* lines 180-183: the author defaults to Anonymous, the body is required
add_comment_validate(t) ==
    /\ thread[t].pc = "comment_validate"
    /\ LET req    == thread[t].req
           given  == strip(get(req.author, ANONYMOUS))
           author == IF given # <<>> THEN given ELSE ANONYMOUS
           body   == strip(get(req.body, <<>>))
       IN  IF body = <<>>
           THEN Respond(t, 400)
           ELSE thread' = [thread EXCEPT ![t].pc = "comment_lookup",
                                         ![t].author = author, ![t].body = body]
    /\ UNCHANGED Shared

\* a faulty variant: the post is not looked up
add_comment_lookup_skipped(t) ==
    /\ thread[t].pc = "comment_lookup"
    /\ Goto(t, "comment_insert")
    /\ UNCHANGED Shared

\* lines 185-188: SELECT id FROM posts WHERE id = ?; 404 when there is none
add_comment_lookup(t) ==
    /\ thread[t].pc = "comment_lookup"
    /\ IF \E p \in posts : p.id = thread[t].req.post_id
       THEN Goto(t, "comment_insert")
       ELSE Respond(t, 404)
    /\ UNCHANGED Shared

\* lines 190-195: INSERT INTO comments (created_at from the clock), commit,
\* redirect
add_comment_insert(t, last) ==
    /\ thread[t].pc = "comment_insert"
    /\ comment_seq' = comment_seq + 1
    /\ \E now \in utcnow(last) :
        /\ clock' = now
        /\ comments' = comments \cup
              {[id |-> comment_seq + 1,
                post_id |-> thread[t].req.post_id,
                author |-> thread[t].author,
                body |-> thread[t].body,
                created_at |-> isoformat(now)]}
    /\ Respond(t, 302)
    /\ UNCHANGED <<INITIALIZED, tables, upload_dir, files, posts, post_seq,
                   init_runs>>

-----------------------------------------------------------------------------
(* delete_post: POST /post/<post_id>/delete *)

\* a faulty variant: the deletion goes ahead whether or not the post exists
delete_post_lookup_unchecked(t) ==
    /\ thread[t].pc = "delete_lookup"
    /\ thread' = [thread EXCEPT ![t].pc = "delete_commit"]
    /\ UNCHANGED Shared

\* lines 200-205: SELECT image_filename FROM posts WHERE id = ?; 404 when none
delete_post_lookup(t) ==
    /\ thread[t].pc = "delete_lookup"
    /\ IF \E p \in posts : p.id = thread[t].req.post_id
       THEN LET p == CHOOSE p \in posts : p.id = thread[t].req.post_id IN
            thread' = [thread EXCEPT ![t].pc = "delete_commit",
                                     ![t].post = p.image_filename]
       ELSE Respond(t, 404)
    /\ UNCHANGED Shared

\* lines 207-209: the comments and the post are deleted in one transaction
delete_post_commit(t) ==
    /\ thread[t].pc = "delete_commit"
    /\ comments' = {c \in comments : c.post_id # thread[t].req.post_id}
    /\ posts' = {p \in posts : p.id # thread[t].req.post_id}
    /\ Goto(t, "delete_exists")
    /\ UNCHANGED <<INITIALIZED, tables, upload_dir, files, post_seq, comment_seq,
                   clock, init_runs>>

\* the delete request of thread t returns its redirect; the answered
\* request keeps the image name it read
DeleteReturns(t) ==
    thread' = [thread EXCEPT ![t] =
                  [Idle EXCEPT !.pc = "done", !.req = thread[t].req, !.resp = 302,
                               !.post = thread[t].post]]

\* lines 211-213 and 216: the image's path is tested; without an image, or
\* with its file missing, the redirect is returned
delete_post_exists(t) ==
    /\ thread[t].pc = "delete_exists"
    /\ IF thread[t].post # NullName /\ thread[t].post \in files
       THEN Goto(t, "delete_unlink")
       ELSE DeleteReturns(t)
    /\ UNCHANGED <<INITIALIZED, tables, upload_dir, files, posts, comments,
                   post_seq, comment_seq, clock, init_runs>>

\* lines 214-216: image_path.unlink(), which raises FileNotFoundError (a 500)
\* when the file has gone since the test; then the redirect
delete_post_unlink(t) ==
    /\ thread[t].pc = "delete_unlink"
    /\ IF thread[t].post \in files
       THEN files' = files \ {thread[t].post} /\ DeleteReturns(t)
       ELSE Respond(t, 500) /\ UNCHANGED files
    /\ UNCHANGED <<INITIALIZED, tables, upload_dir, posts, comments, post_seq,
                   comment_seq, clock, init_runs>>

-----------------------------------------------------------------------------
(* uploaded_file: GET /uploads/<filename> *)

\* line 221: send_from_directory; 404 when the directory has no such file
uploaded_file(t) ==
    /\ thread[t].pc = "serve"
    /\ IF thread[t].req.filename \in files
       THEN Respond(t, 200)
       ELSE Respond(t, 404)
    /\ UNCHANGED Shared

\* the response has been sent and the thread is free again
Finish(t) ==
    /\ thread[t].pc = "done"
    /\ thread' = [thread EXCEPT ![t] = Idle]
    /\ UNCHANGED Shared

-----------------------------------------------------------------------------
(* The requests the threads are given. *)

LOOPBACK == <<"1", "2", "7", ".", "0", ".", "0", ".", "1">>
PUBLIC   == <<"8", ".", "8", ".", "8", ".", "8">>
PHOTO    == <<"p", "h", "o", "t", "o", ".", "P", "N", "G">>
PAYLOAD  == <<"p", "a", "y", "l", "o", "a", "d", ".", "e", "x", "e">>

Request(op) == [NoRequest EXCEPT !.op = op, !.peer = Some(LOOPBACK)]

IndexRequests(dates) ==
    {[Request("index") EXCEPT !.date = d] : d \in dates}

CreateRequests(titles, bodies, images) ==
    {[Request("create") EXCEPT !.title = ti, !.body = bo, !.image = im] :
        ti \in titles, bo \in bodies, im \in images}

CommentRequests(ids, authors, bodies) ==
    {[Request("comment") EXCEPT !.post_id = id, !.author = au, !.body = bo] :
        id \in ids, au \in authors, bo \in bodies}

DeleteRequests(ids) ==
    {[Request("delete") EXCEPT !.post_id = id] : id \in ids}

ServeRequests(names) ==
    {[Request("serve") EXCEPT !.filename = n] : n \in names}

From(requests, xffs, peers) ==
    {[r EXCEPT !.xff = x, !.peer = p] : r \in requests, x \in xffs, p \in peers}

\* the requests of the concurrent specification: few inputs, two threads
RaceRequests ==
    IndexRequests({None, Some(<<0>>)})
    \cup CreateRequests({Some(<<" ", "a", " ">>)}, {Some(<<"b">>)}, {None, Some(PHOTO)})
    \cup CommentRequests({1}, {None}, {Some(<<"c">>)})
    \cup DeleteRequests(1..MaxPosts)
    \cup ServeRequests({Composed(0, PHOTO)})
    \cup From(IndexRequests({None}), {None}, {Some(PUBLIC)})

\* the requests of the one-thread specification: every route from an
\* admitted and from a public origin, the listing from every kind of origin,
\* and every route with the inputs its validation tells apart
SeqRequests ==
    From(IndexRequests({None}),
         {None, Some(<<>>), Some(LOOPBACK), Some(PUBLIC)},
         {Some(LOOPBACK), Some(PUBLIC)})
    \cup From(DeleteRequests({1}) \cup ServeRequests({NullName})
                \cup CreateRequests({Some(<<"a">>)}, {Some(<<"b">>)}, {None})
                \cup CommentRequests({1}, {None}, {Some(<<"c">>)}),
              {None, Some(<<>>)}, {Some(PUBLIC)})
    \cup CreateRequests({None, Some(<<>>), Some(<<" ">>), Some(<<" ", "a", " ">>)},
                        {None, Some(<<" ", " ">>), Some(<<"b", " ">>)},
                        {None, Some(PHOTO)})
    \cup CreateRequests({Some(<<" ", "a", " ">>)}, {Some(<<"b", " ">>)},
                        {Some(<<>>), Some(PAYLOAD),
                         Some(<<"n", "o", "e", "x", "t">>),
                         Some(<<"p", "n", "g">>),
                         Some(<<".", ".", "/", "a", " ", "b", ".", "g", "i", "f">>)})
    \cup CommentRequests(1..(MaxPosts + 1),
                         {None, Some(<<" ">>), Some(<<" ", "x">>)},
                         {None, Some(<<" ">>), Some(<<"c", " ">>)})
    \cup DeleteRequests(1..(MaxPosts + 1))
    \cup ServeRequests({Composed(0, PHOTO), Composed(1, PHOTO)})

\* the requests of the listing specification: posts made at every reading of
\* the clock, listed under every kind of date filter
ListRequests ==
    IndexRequests({None, Some(<<>>), Some(<<0>>), Some(<<1>>), Some(<<0, 0>>)})
    \cup CreateRequests({Some(<<"a">>)}, {Some(<<"b">>)}, {None, Some(PHOTO)})
    \cup CommentRequests({1}, {None}, {Some(<<"c">>)})
    \cup DeleteRequests(1..MaxPosts)
    \cup ServeRequests({Composed(0, PHOTO)})
    \cup From(IndexRequests({None}), {None}, {Some(PUBLIC)})

\* the labels the origins of the access specification are made of
OCTETS ==
    { <<"0">>, <<"1">>, <<"9">>, <<"1", "0">>, <<"1", "1">>, <<"1", "5">>,
      <<"1", "6">>, <<"3", "1">>, <<"3", "2">>, <<"1", "2", "6">>,
      <<"1", "2", "7">>, <<"1", "2", "8">>, <<"1", "6", "8">>, <<"1", "6", "9">>,
      <<"1", "7", "1">>, <<"1", "7", "2">>, <<"1", "7", "3">>, <<"1", "9", "2">>,
      <<"1", "9", "3">>, <<"2", "5", "5">> }
ODD_LABELS ==
    { <<>>, <<"x">>, <<"0", "1", "6">>, <<"+", "1", "6">>, <<" ", "1", "6">>,
      <<"2", "5", "6">>, <<"1", "6", "x">> }
LAST_LABELS == { <<"0">>, <<"1">>, <<"2", "5", "5">>, <<"x">> }

\* the origins of the access specification: dotted texts of one to five labels
ORIGINS ==
    {join(<<a, b, c, d>>, ".") :
        a \in OCTETS \cup ODD_LABELS, b \in OCTETS \cup ODD_LABELS,
        c \in LAST_LABELS, d \in LAST_LABELS}
    \cup {join(<<a, b>>, ".") : a \in OCTETS \cup ODD_LABELS, b \in OCTETS \cup ODD_LABELS}
    \cup {join(<<a, b, c>>, ".") :
            a \in OCTETS, b \in OCTETS \cup ODD_LABELS, c \in LAST_LABELS}
    \cup {join(<<a, b, <<"0">>, <<"1">>, e>>, ".") :
            a \in OCTETS, b \in OCTETS, e \in LAST_LABELS}
    \cup OCTETS \cup ODD_LABELS

\* the requests of the access specification: the listing, from every origin
AccessRequests ==
    From(IndexRequests({None}),
         {None} \cup {Some(o) : o \in ORIGINS},
         {None, Some(LOOPBACK), Some(PUBLIC)})

\* the requests of the initialization specification: listings
InitRequests ==
    From(IndexRequests({None, Some(<<0>>)}), {None}, {Some(LOOPBACK), Some(PUBLIC)})

-----------------------------------------------------------------------------
(* The specifications. *)

Step(t, requests, last) ==
    \/ Arrive(t, requests)
    \/ limit_to_local_network(t)
    \/ setup(t)
    \/ init_db(t)
    \/ setup_finish(t)
    \/ index_posts(t)
    \/ index_comments(t)
    \/ create_post_validate(t, last)
    \/ create_post_save(t)
    \/ create_post_stamp(t, last)
    \/ create_post_insert(t)
    \/ add_comment_validate(t)
    \/ add_comment_lookup(t)
    \/ add_comment_insert(t, last)
    \/ delete_post_lookup(t)
    \/ delete_post_commit(t)
    \/ delete_post_exists(t)
    \/ delete_post_unlink(t)
    \/ uploaded_file(t)
    \/ Finish(t)

\* two threads serving requests concurrently
Next == \E t \in Threads : Step(t, RaceRequests, MaxClock)

Spec == Init /\ [][Next]_vars

\* one thread serving requests one after the other
NextSeq == Step(1, SeqRequests, SeqMaxClock)

SpecSeq == Init /\ [][NextSeq]_vars

\* one thread creating, deleting and listing posts over several days
NextList == Step(1, ListRequests, ListMaxClock)

SpecList == Init /\ [][NextList]_vars

\* one thread serving listings from every origin
NextAccess ==
    \/ Arrive(1, AccessRequests)
    \/ limit_to_local_network(1)
    \/ setup(1)
    \/ init_db(1)
    \/ setup_finish(1)
    \/ index_posts(1)
    \/ index_comments(1)
    \/ Finish(1)

SpecAccess == Init /\ [][NextAccess]_vars

\* two threads serving listings, with a store whose initialization may fail
NextInit ==
    \E t \in Threads :
        \/ Arrive(t, InitRequests)
        \/ limit_to_local_network(t)
        \/ setup(t)
        \/ init_db(t)
        \/ init_db_raises(t)
        \/ setup_finish(t)
        \/ index_posts(t)
        \/ index_comments(t)
        \/ Finish(t)

SpecInit == Init /\ [][NextInit]_vars

-----------------------------------------------------------------------------
(* The notions the claims are stated in, defined apart from the operators   *)
(* that model the code.                                                     *)

\* a decimal octet, 0..255, written without leading zeros
IsOctet(label) ==
    /\ Len(label) \in 1..3
    /\ \A i \in 1..Len(label) : label[i] \in Range(DIGITS)
    /\ Len(label) > 1 => label[1] # "0"
    /\ DecimalValue(label) <= 255

\* a dotted-quad IPv4 address
IsAddress(text) ==
    LET labels == split(text, ".") IN
    Len(labels) = 4 /\ \A i \in 1..4 : IsOctet(labels[i])

\* an address within 127.0.0.0/8, 10.0.0.0/8, 192.168.0.0/16 or 172.16.0.0/12,
\* decided on the upper 16 bits of its value
InLocalRanges(text) ==
    /\ IsAddress(text)
    /\ LET labels == split(text, ".")
           upper  == DecimalValue(labels[1]) * 256 + DecimalValue(labels[2])
       IN  \/ upper \div 256 = 127
           \/ upper \div 256 = 10
           \/ upper = 192 * 256 + 168
           \/ upper \div 16 = (172 * 256 + 16) \div 16

\* the access filter has decided on thread t's request
Filtered(t) == thread[t].pc \notin {"idle", "limit"}

Forbidden(t) == thread[t].pc = "done" /\ thread[t].resp = 403

Blank(text) == \A i \in 1..Len(text) : text[i] \in WHITESPACE

BlankField(field) == ~field.present \/ Blank(field.value)

\* stored is raw without its leading and trailing whitespace
Trimmed(raw, stored) ==
    /\ stored # <<>> => stored[1] \notin WHITESPACE /\ stored[Len(stored)] \notin WHITESPACE
    /\ \E i \in 0..Len(raw) :
         /\ i + Len(stored) <= Len(raw)
         /\ \A k \in 1..Len(stored) : raw[i + k] = stored[k]
         /\ \A k \in 1..i : raw[k] \in WHITESPACE
         /\ \A k \in (i + Len(stored) + 1)..Len(raw) : raw[k] \in WHITESPACE

SameLetter(a, b) ==
    a = b \/ \E k \in 1..26 : {a, b} = {UPPERCASE[k], LOWERCASE[k]}

\* the name ends in a dot and one of the allowed extensions, in any case
HasAllowedExtension(name) ==
    \E e \in ALLOWED_EXTENSIONS :
        /\ Len(name) > Len(e)
        /\ name[Len(name) - Len(e)] = "."
        /\ \A k \in 1..Len(e) : SameLetter(name[Len(name) - Len(e) + k], e[k])

ImageGiven(req) == req.image.present /\ req.image.value # <<>>

PostMissing(id) == ~\E p \in posts : p.id = id

\* thread t takes a step
Moves(t) == thread'[t] # thread[t]

Answers(t, code) == thread'[t].pc = "done" /\ thread'[t].resp = code

\* a text that is not empty and has no whitespace at either end
NonEmptyTrimmed(text) ==
    /\ text # <<>>
    /\ text[1] \notin WHITESPACE
    /\ text[Len(text)] \notin WHITESPACE

\* the positions inside the route handlers
HandlerPositions ==
    {"index_posts", "index_comments", "create_validate", "create_save",
     "create_stamp", "create_insert", "comment_validate", "comment_lookup",
     "comment_insert", "delete_lookup", "delete_commit", "delete_exists",
     "delete_unlink", "serve"}

\* created_at as a count of seconds
Seconds(created_at) == created_at[1] * SecondsPerDay + created_at[2]

-----------------------------------------------------------------------------
(* The claims. *)

\* C1 (as stated): every non-empty declared origin is admitted by the access
\* filter's classification if and only if it is an address within the four
\* local ranges.
C1_AdmitsExactlyLocalRanges ==
    \A t \in Threads :
        LET origin == declared_origin(thread[t].req) IN
        (Filtered(t) /\ origin # <<>>) =>
            (~Forbidden(t) <=> InLocalRanges(origin))

\* C1, on dotted-quad addresses only: there the classification is exact.
C1_ExactOnAddresses ==
    \A t \in Threads :
        LET origin == declared_origin(thread[t].req) IN
        (Filtered(t) /\ IsAddress(origin)) =>
            (~Forbidden(t) <=> InLocalRanges(origin))

\* C2 (as stated): a request whose declared origin is not a local-network
\* address ends with Forbidden at the access check: it never reaches setup or
\* a route handler, so it leaves the store, the upload directory and the
\* initialization flag as they were.
C2_ForbiddenBeforeAnythingElse ==
    \A t \in Threads :
        (Filtered(t) /\ ~InLocalRanges(declared_origin(thread[t].req))) =>
            Forbidden(t)

\* C3: the create-post handler answers a request whose title or body is
\* missing, empty or whitespace-only with BadRequest, and that step inserts no
\* post row and writes no file, also when a valid image is attached.
C3_BlankCreateRejected ==
    [][\A t \in Threads :
         ( /\ thread[t].pc = "create_validate"
           /\ Moves(t)
           /\ BlankField(thread[t].req.title) \/ BlankField(thread[t].req.body) )
         => ( /\ Answers(t, 400)
              /\ posts' = posts /\ post_seq' = post_seq /\ files' = files )]_vars

C3_Witness ==
    \E t \in Threads :
        /\ thread[t].req.op = "create"
        /\ BlankField(thread[t].req.title)
        /\ thread[t].req.image = Some(PHOTO)
        /\ thread[t].pc = "done" /\ thread[t].resp = 400
        /\ posts = {} /\ files = {}

\* C4: a create-post request with an image whose extension is not allowed
\* is answered BadRequest by a step that writes no file and inserts no row; one
\* with an allowed extension (in any case) and a valid title and body goes on
\* to write exactly one file, the one named by its composed name, and then to
\* insert exactly one post row, which records that name.
C4_UploadValidated ==
    [][\A t \in Threads :
         LET req == thread[t].req IN
         /\ (thread[t].pc = "create_validate" /\ Moves(t) /\ ImageGiven(req)
                /\ ~HasAllowedExtension(req.image.value))
            => (Answers(t, 400) /\ posts' = posts /\ post_seq' = post_seq
                    /\ files' = files)
         /\ (thread[t].pc = "create_validate" /\ Moves(t) /\ ImageGiven(req)
                /\ HasAllowedExtension(req.image.value)
                /\ ~BlankField(req.title) /\ ~BlankField(req.body))
            => (thread'[t].pc = "create_save" /\ thread'[t].written = {}
                    /\ posts' = posts /\ files' = files)
         /\ (thread[t].pc = "create_save" /\ Moves(t))
            => (/\ files' = files \cup {thread[t].filename}
                /\ thread'[t].written = {thread[t].filename}
                /\ thread[t].filename # NullName
                /\ posts' = posts
                /\ thread'[t].pc = "create_stamp")
         /\ (thread[t].pc = "create_stamp" /\ Moves(t))
            => (thread'[t].pc = "create_insert"
                    /\ thread'[t].written = thread[t].written
                    /\ posts' = posts /\ files' = files)
         /\ (thread[t].pc = "create_insert" /\ Moves(t) /\ ImageGiven(req))
            => (/\ \E row \in posts' :
                     /\ row \notin posts
                     /\ posts' = posts \cup {row}
                     /\ thread[t].written = {row.image_filename}
                /\ files' = files
                /\ Answers(t, 302))]_vars

C4_Witness ==
    \E t \in Threads :
        /\ thread[t].req.op = "create"
        /\ thread[t].req.image = Some(PHOTO)
        /\ thread[t].pc = "done" /\ thread[t].resp = 302
        /\ \E row \in posts :
             /\ row.original = PHOTO
             /\ row.image_filename.name = PHOTO
             /\ row.image_filename \in files
        /\ Cardinality(posts) = 1 /\ Cardinality(files) = 1

C6_NotListedAfterDelete ==
    \A u \in Threads : \A p \in thread[u].deleted_before :
        /\ \A i \in 1..Len(thread[u].listing) : thread[u].listing[i].id # p
        /\ \A i \in 1..Len(thread[u].shown) : thread[u].shown[i].post_id # p

\* C6 (as stated): once a delete of post p has returned its redirect, the
\* image file p had is not in the upload directory, and no listing requested
\* later shows p or a comment of p.
C6_GoneAfterDelete ==
    /\ \A d \in Threads :
         ( /\ thread[d].req.op = "delete"
           /\ thread[d].pc = "done" /\ thread[d].resp = 302
           /\ thread[d].post # NullName )
         => thread[d].post \notin files
    /\ C6_NotListedAfterDelete

\* C7 (as stated): every comment row in the store has a post row with its
\* post_id.
C7_NoOrphanComment ==
    \A c \in comments : \E p \in posts : p.id = c.post_id

\* C8: the listing read by index holds, without a date filter, every post,
\* and with the filter d exactly the posts whose created_at is on day d; each
\* post once, in descending order of created_at.
C8_ListingFilteredAndOrdered ==
    \A t \in Threads :
        thread[t].pc = "index_comments" =>
            LET date == thread[t].req.date
                rows == thread[t].listing
            IN  /\ ~date.present => Range(rows) = posts
                /\ (date.present /\ Len(date.value) = 1) =>
                       Range(rows) = {p \in posts : p.created_at[1] = date.value[1]}
                /\ \A i, j \in 1..Len(rows) : i # j => rows[i] # rows[j]
                /\ \A i, j \in 1..Len(rows) :
                       i < j => Seconds(rows[i].created_at) >= Seconds(rows[j].created_at)

C8_Witness ==
    \E t \in Threads :
        /\ thread[t].pc = "index_comments"
        /\ thread[t].req.date = Some(<<0>>)
        /\ Len(thread[t].listing) = 1
        /\ \E p, q \in posts :
             /\ p.created_at[1] = 0 /\ q.created_at[1] = 1
             /\ thread[t].listing[1] = p

\* the round trip of a create: the step that inserts the post leaves a row
\* with the submitted title and body, trimmed, and a created_at, and every
\* unfiltered listing of the store right after the step holds that row.
C9_RoundTrip(t) ==
    (thread[t].pc = "create_insert" /\ Moves(t)) =>
        \E row \in posts' :
            /\ row \notin posts
            /\ Trimmed(get(thread[t].req.title, <<>>), row.title)
            /\ Trimmed(get(thread[t].req.body, <<>>), row.body)
            /\ Len(row.created_at) = 2
            /\ \A rows \in select_posts(None)' : row \in Range(rows)

\* C9 (as stated): the round trip, and created_at non-decreasing in the order
\* of the post ids, also for creates that overlap.
C9_RoundTripAndMonotone ==
    [][/\ \A t \in Threads : C9_RoundTrip(t)
       /\ \A p, q \in posts' :
            p.id < q.id => Seconds(p.created_at) <= Seconds(q.created_at)]_vars

\* C9 (amended): the round trip, and the created_at of a new post is not
\* before that of any post committed before the new post's request arrived
\* (the clock not going back); creates that overlap are not so ordered.
C9_RoundTripAndMonotoneInSequence ==
    [][\A t \in Threads :
         /\ C9_RoundTrip(t)
         /\ (thread[t].pc = "create_insert" /\ Moves(t)) =>
               \A p \in posts :
                   p.id <= thread[t].started =>
                       Seconds(p.created_at) <= Seconds(thread[t].created_at)]_vars

C9_Witness ==
    \E t \in Threads :
        /\ thread[t].req.op = "create"
        /\ thread[t].pc = "done" /\ thread[t].resp = 302
        /\ thread[t].started = 1
        /\ \E p, q \in posts :
             /\ p.id = 1 /\ q.id = 2
             /\ q.title = <<"a">> /\ q.body = <<"b">>
             /\ Seconds(p.created_at) < Seconds(q.created_at)

\* C10 (as stated): two posts whose uploads had the same original filename
\* record different composed names.
C10_ComposedNamesDistinct ==
    \A p, q \in posts :
        ( /\ p.id # q.id
          /\ p.image_filename # NullName /\ q.image_filename # NullName
          /\ p.original = q.original )
        => p.image_filename # q.image_filename

\* C11 (as stated): every post row whose image_filename is set names a file
\* that exists in the upload directory.
C11_ImageFileExists ==
    \A p \in posts :
        p.image_filename # NullName => p.image_filename \in files

\* C12 (as stated): the step of delete-post that commits the deletion removes
\* no file, and the step that removes the file keeps the deletion committed
\* and answers with the redirect, also when the removal fails.
C12_UnlinkFailureNotSurfaced ==
    [][\A t \in Threads :
         /\ (thread[t].pc = "delete_commit" /\ Moves(t)) =>
                (files' = files /\ PostMissing(thread[t].req.post_id)')
         /\ (thread[t].pc = "delete_unlink" /\ Moves(t)) =>
                (/\ posts' = posts /\ comments' = comments
                 /\ PostMissing(thread[t].req.post_id)
                 /\ Answers(t, 302))]_vars

\* C12, the part that holds: the deletion commits before the file is touched
\* and stays committed whatever becomes of the removal.
C12_DeletionStaysCommitted ==
    [][\A t \in Threads :
         /\ (thread[t].pc = "delete_commit" /\ Moves(t)) =>
                (files' = files /\ PostMissing(thread[t].req.post_id)')
         /\ (thread[t].pc = "delete_unlink" /\ Moves(t)) =>
                (/\ posts' = posts /\ comments' = comments
                 /\ PostMissing(thread[t].req.post_id)
                 /\ (Answers(t, 302) \/ Answers(t, 500)))]_vars

\* C13 (as stated): the schema creation and the creation of the upload
\* directory are executed at most once.
C13_InitializedAtMostOnce == init_runs <= 1

\* C13 (amended): a request that finds the flag set skips the initialization;
\* one that finds it unset runs it, and a run, first or repeated, failed or
\* not, changes no row and no file, and never takes a table, the directory
\* or the flag away.
C13_InitializationGuardedAndIdempotent ==
    [][/\ init_runs' # init_runs =>
            (/\ init_runs' = init_runs + 1
             /\ \E t \in Threads : thread[t].pc = "init_db" /\ Moves(t))
       /\ \A t \in Threads :
         /\ (thread[t].pc = "setup" /\ Moves(t) /\ INITIALIZED) =>
                (thread'[t].pc = Entry(thread[t].req.op) /\ init_runs' = init_runs)
         /\ (thread[t].pc = "setup" /\ Moves(t) /\ ~INITIALIZED) =>
                thread'[t].pc = "init_db"
         /\ (thread[t].pc \in {"init_db", "mkdir"} /\ Moves(t)) =>
                (/\ posts' = posts /\ comments' = comments /\ files' = files
                 /\ post_seq' = post_seq /\ comment_seq' = comment_seq
                 /\ tables => tables'
                 /\ upload_dir => upload_dir'
                 /\ INITIALIZED => INITIALIZED')]_vars

\* initialization has run three times: once failing, and once by each of two
\* requests that both found the flag unset
C13_Witness ==
    /\ init_runs = 3 /\ INITIALIZED
    /\ \E t \in Threads : thread[t].pc = "done" /\ thread[t].resp = 200

\* C14: whenever a thread is inside a route handler both tables and the
\* upload directory exist; rows are only ever held by existing tables and
\* files by an existing directory; and the initialized flag is set only when
\* the tables and the directory exist.
C14_InitializedBeforeHandlers ==
    /\ \A t \in Threads :
          thread[t].pc \in HandlerPositions => (tables /\ upload_dir)
    /\ (posts # {} \/ comments # {}) => tables
    /\ files # {} => upload_dir
    /\ INITIALIZED => (tables /\ upload_dir)

\* a handler writes an upload while the request that raced it through the
\* initialization is in a handler as well
C14_Witness ==
    /\ init_runs = 2
    /\ thread[1].pc = "create_save"
    /\ thread[2].pc \in HandlerPositions
    /\ thread[2].started = 0 /\ posts = {}

\* C15: no two post rows share an id; the step that inserts a post gives it
\* an id greater than every id assigned before, whether its post is still
\* there or deleted, so no comment row, orphaned or not, refers to the new
\* post; and ids in use never exceed the last id assigned.
C15_IdsNeverReused ==
    [][/\ \A p, q \in posts' : p.id = q.id => p = q
       /\ \A p \in posts' : p.id \in 1..post_seq'
       /\ \A c \in comments' : c.post_id \in 1..post_seq'
       /\ post_seq' >= post_seq
       /\ \A t \in Threads :
            (thread[t].pc = "create_insert" /\ Moves(t)) =>
                \E row \in posts' :
                    /\ posts' = posts \cup {row}
                    /\ row.id > post_seq
                    /\ post_seq' = row.id
                    /\ \A p \in posts : p.id < row.id
                    /\ \A c \in comments' : c.post_id # row.id]_vars

\* the most recent post was deleted, a comment was left referring to it, and
\* a post has been created since
C15_Witness ==
    /\ post_seq = 2
    /\ \A p \in posts : p.id = 2
    /\ posts # {}
    /\ \E c \in comments : c.post_id = 1

\* C16: the delete-post handler answers a request for a post id that has no
\* row with NotFound, in a step that removes no post row, no comment row and
\* no file (and changes nothing else of the store or the directory).
C16_DeleteMissingChangesNothing ==
    [][\A t \in Threads :
         (thread[t].pc = "delete_lookup" /\ Moves(t)
             /\ PostMissing(thread[t].req.post_id))
         => (/\ Answers(t, 404)
             /\ posts' = posts /\ comments' = comments /\ files' = files
             /\ post_seq' = post_seq /\ comment_seq' = comment_seq)]_vars

\* a delete of a missing post has been answered NotFound while the store
\* holds a post with an image and a comment
C16_Witness ==
    \E t \in Threads :
        /\ thread[t].req.op = "delete"
        /\ thread[t].pc = "done" /\ thread[t].resp = 404
        /\ \E p \in posts : p.image_filename \in files
        /\ comments # {}

\* C17: in every store state every post has a title and a body that are
\* non-empty and without surrounding whitespace, every comment has such a
\* body and a non-empty author; and the step that inserts a comment whose
\* submitted author was missing or blank stores the author "Anonymous".
C17_StoredTextNonEmptyTrimmed ==
    [][/\ \A p \in posts' : NonEmptyTrimmed(p.title) /\ NonEmptyTrimmed(p.body)
       /\ \A c \in comments' : NonEmptyTrimmed(c.body) /\ c.author # <<>>
       /\ \A t \in Threads :
            (thread[t].pc = "comment_insert" /\ Moves(t)) =>
                \E c \in comments' :
                    /\ comments' = comments \cup {c}
                    /\ c \notin comments
                    /\ BlankField(thread[t].req.author) => c.author = ANONYMOUS
                    /\ ~BlankField(thread[t].req.author) =>
                           Trimmed(thread[t].req.author.value, c.author)]_vars

\* a comment submitted with a blank author and a padded body has been stored
\* under a post submitted with a padded title and body
C17_Witness ==
    \E t \in Threads :
        /\ thread[t].req.op = "comment"
        /\ thread[t].req.author = Some(<<" ">>)
        /\ thread[t].req.body = Some(<<"c", " ">>)
        /\ thread[t].pc = "done" /\ thread[t].resp = 302
        /\ \E c \in comments : c.author = ANONYMOUS /\ c.body = <<"c">>
        /\ \E p \in posts : p.title = <<"a">> /\ p.body = <<"b">>

====
